---- MODULE Spec2Model ----
(***************************************************************************)
(* QR Fiscal Receipt Reader (src/BI_trabalho/BI.py): the access-key        *)
(* extraction heuristic, the CSV-backed deduplicated key store, one        *)
(* browser session's script runs (webcam scan loop, image upload, Clear    *)
(* All Data), and two sessions appending to the same CSV file.             *)
(*                                                                         *)
(* A text is a sequence of one-character strings.  The alphabet is the     *)
(* ten decimal digits, the letters "a" and "b", and the blank; texts that  *)
(* pandas would read as floats, booleans or NaN ("1.5", "1e5", "True",     *)
(* "NA", ...) or would quote on writing (commas, quotes, line breaks)      *)
(* cannot be built from it.                                                *)
(***************************************************************************)
EXTENDS Integers, Sequences, FiniteSets, TLC

VARIABLES
    csv,            \* the file CSV_FILE on disk
    access_keys,    \* st.session_state.access_keys
    camera_active,  \* st.session_state.camera_active
    pc,             \* position of the session's current script run
    clicked,        \* the widget the user activated, delivered to the next run
    widget,         \* the widget whose activation started the current run
    objs,           \* decoded_objects still to be handled in the current loop
    cap,            \* state of the cv2.VideoCapture handle of this run
    rerun,          \* st.rerun() was called: the script runs again by itself
    status,         \* the last status message the session displayed
    session_unique, \* the file the session initialised from held no key twice
    qr_data,        \* qr_data handed to extract_access_key
    access_key,     \* the access_key it returned
    wpc, wkey, wdf, wkeys, wret   \* two sessions appending to the same file

vars == <<csv, access_keys, camera_active, pc, clicked, widget, objs, cap, rerun,
          status, session_unique, qr_data, access_key, wpc, wkey, wdf, wkeys, wret>>

sessionVars == <<csv, access_keys, camera_active, pc, clicked, widget, objs, cap, rerun,
                 status, session_unique>>
extractVars == <<qr_data, access_key>>
writerVars  == <<wpc, wkey, wdf, wkeys, wret>>

(***************************************************************************)
(* Texts                                                                   *)
(***************************************************************************)
DigitChars == <<"0", "1", "2", "3", "4", "5", "6", "7", "8", "9">>

IsDigit(c) == \E i \in 1..Len(DigitChars) : DigitChars[i] = c

DigitVal(c) == (CHOOSE i \in 1..Len(DigitChars) : DigitChars[i] = c) - 1

IsSpace(c) == c = " "

Rep(c, n) == [i \in 1..n |-> c]

\* str.strip(): the text without its leading and trailing blanks
strip(s) ==
    LET idx == {i \in 1..Len(s) : ~IsSpace(s[i])}
    IN  IF idx = {} THEN <<>>
        ELSE LET lo == CHOOSE i \in idx : \A j \in idx : i <= j
                 hi == CHOOSE i \in idx : \A j \in idx : j <= i
             IN  SubSeq(s, lo, hi)

\* the positions at which n consecutive digits start
DigitsAt(s, n) ==
    {i \in 1..(Len(s) - n + 1) : \A j \in i..(i + n - 1) : IsDigit(s[j])}

\* the last position of the digit run that contains position i
RunEnd(s, i) ==
    CHOOSE e \in i..Len(s) :
        /\ \A j \in i..e : IsDigit(s[j])
        /\ (e = Len(s) \/ ~IsDigit(s[e + 1]))

Min(S) == CHOOSE x \in S : \A y \in S : x <= y

\* re.findall(r'\d{n}', s)[0]: the leftmost match, n digits wherever they stand
FirstExact(s, n) == SubSeq(s, Min(DigitsAt(s, n)), Min(DigitsAt(s, n)) + n - 1)

\* re.findall(r'\d{n,}', s)[0]: the leftmost match, greedy to the end of its run
FirstAtLeast(s, n) == SubSeq(s, Min(DigitsAt(s, n)), RunEnd(s, Min(DigitsAt(s, n))))

(***************************************************************************)
(* extract_access_key                                                      *)
(***************************************************************************)
None == <<"None">>

NFE_KEY_LEN   == 44
ALT_KEY_LEN   == 47
LONG_RUN_LEN  == 20
MAX_PLAIN_LEN == 100

extract_access_key(s) ==
    IF Len(strip(s)) = 0 THEN None
    ELSE IF DigitsAt(s, NFE_KEY_LEN) # {} THEN FirstExact(s, NFE_KEY_LEN)
    ELSE IF DigitsAt(s, ALT_KEY_LEN) # {} THEN FirstExact(s, ALT_KEY_LEN)
    ELSE IF DigitsAt(s, LONG_RUN_LEN) # {} THEN FirstAtLeast(s, LONG_RUN_LEN)
    ELSE IF Len(strip(s)) <= MAX_PLAIN_LEN THEN strip(s)
    ELSE None

(***************************************************************************)
(* pandas: what read_csv makes of the access_key column and what to_csv    *)
(* writes back.  A column whose cells are all decimal integers that fit    *)
(* 64 bits is read as integers; any other column is read as strings.  The  *)
(* timestamp column is carried along unread and is left out.               *)
(***************************************************************************)
UINT64_MAX == <<"1", "8", "4", "4", "6", "7", "4", "4", "0", "7",
                "3", "7", "0", "9", "5", "5", "1", "6", "1", "5">>

StrVal(s) == <<"str", s>>
IntVal(s) == <<"int", s>>

\* the decimal digits of int(s): s without its leading zeros
Canon(s) ==
    LET nz == {i \in 1..Len(s) : s[i] # "0"}
    IN  IF nz = {} THEN <<"0">> ELSE SubSeq(s, Min(nz), Len(s))

\* a <= b for two digit texts without leading zeros
DecLeq(a, b) ==
    \/ Len(a) < Len(b)
    \/ /\ Len(a) = Len(b)
       /\ \/ a = b
          \/ \E i \in 1..Len(a) :
                /\ \A j \in 1..(i - 1) : a[j] = b[j]
                /\ DigitVal(a[i]) < DigitVal(b[i])

IsIntCell(s) ==
    /\ Len(s) > 0
    /\ \A i \in 1..Len(s) : IsDigit(s[i])
    /\ DecLeq(Canon(s), UINT64_MAX)

Absent  == [kind |-> "absent",  rows |-> <<>>]
Corrupt == [kind |-> "corrupt", rows |-> <<>>]
CsvFile(rows) == [kind |-> "csv", rows |-> rows]

\* pd.read_csv(CSV_FILE)['access_key'] of a readable file
read_csv(f) ==
    IF f.rows # <<>> /\ \A i \in 1..Len(f.rows) : IsIntCell(f.rows[i])
    THEN [i \in 1..Len(f.rows) |-> IntVal(Canon(f.rows[i]))]
    ELSE [i \in 1..Len(f.rows) |-> StrVal(f.rows[i])]

\* df.to_csv(CSV_FILE, index=False) when it succeeds
to_csv(df) == CsvFile([i \in 1..Len(df) |-> df[i][2]])

\* what a to_csv that raises can leave behind: the old file (the open failed), or,
\* once the file was opened for writing, some of the rows or no byte at all
FailedWrite(f, df) ==
    {f, Corrupt} \cup {to_csv(SubSeq(df, 1, n)) : n \in 0..(Len(df) - 1)}

\* no two rows of the file hold the same access_key
Unique(f) == \A i, j \in 1..Len(f.rows) : f.rows[i] = f.rows[j] => i = j

Range(q) == {q[i] : i \in 1..Len(q)}

\* os.path.exists(CSV_FILE)
exists(f) == f.kind # "absent"

\* len(df) of the View Data tab and of the sidebar
RecordCount(f) == IF f.kind = "csv" THEN Len(f.rows) ELSE 0

load_existing_keys(f) ==
    IF f.kind = "csv" THEN Range(read_csv(f)) ELSE {}

\* lines 48-52 of save_to_csv: the table that is written back
NewTable(f, key) ==
    IF exists(f) THEN read_csv(f) \o <<StrVal(strip(key))>> ELSE <<StrVal(strip(key))>>

(***************************************************************************)
(* One browser session                                                     *)
(***************************************************************************)
MaxRows    == 2     \* rows the file may hold before frames stop bringing symbols
MaxSymbols == 1     \* symbols pyzbar finds in one frame or image

Undecodable == <<"UnicodeDecodeError">>   \* a symbol whose bytes are not UTF-8

SessionTexts ==
    { <<"7">>, <<" ", "0", "7">>, <<"a">> \o Rep("3", NFE_KEY_LEN + 1), <<" ">> }

Symbols == SessionTexts \cup {Undecodable}

\* pyzbar.decode(...): the symbols of one frame or image
Decoded ==
    {d \in UNION {[1..n -> Symbols] : n \in 0..MaxSymbols} :
        Len(csv.rows) + Len(d) <= MaxRows}

Msg(m, k) == [msg |-> m, key |-> k]

Widgets == {"start", "stop", "process", "clear"}

\* save_to_csv(access_key); `saved` is the message its caller shows on True
save_to_csv(key, saved) ==
    IF Len(strip(key)) = 0
    THEN /\ status' = Msg("Invalid access key: empty or null", <<>>)
         /\ UNCHANGED <<csv, access_keys>>
    ELSE \/ /\ csv.kind = "corrupt"                    \* pd.read_csv raises
            /\ status' = Msg("Error saving access key", <<>>)
            /\ UNCHANGED <<csv, access_keys>>
         \/ /\ csv.kind # "corrupt"
            /\ csv' = to_csv(NewTable(csv, key))
            /\ access_keys' = access_keys \cup {StrVal(strip(key))}
            /\ status' = Msg(saved, key)
         \/ /\ csv.kind # "corrupt"                    \* df.to_csv raises
            /\ csv' \in FailedWrite(csv, NewTable(csv, key))
            /\ status' = Msg("Error saving access key", <<>>)
            /\ UNCHANGED access_keys

\* the body of `for obj in decoded_objects` that both scanners share
handle_symbol(obj, saved, duplicate) ==
    IF obj = Undecodable
    THEN /\ status' = Msg("Could not decode QR code data", <<>>)
         /\ UNCHANGED <<csv, access_keys>>
    ELSE LET key == extract_access_key(obj)
         IN  IF key # None /\ StrVal(key) \notin access_keys
             THEN save_to_csv(key, saved)
             ELSE /\ status' = Msg(duplicate, key)
                  /\ UNCHANGED <<csv, access_keys>>

\* the user activates a widget; the click reaches the script at its next run
Click ==
    /\ clicked = "none"
    /\ clicked' \in Widgets
    /\ UNCHANGED <<csv, access_keys, camera_active, pc, objs, cap, rerun, status,
                   session_unique, widget>>

\* a new browser session: lines 26-29 initialise its session state
NewSession ==
    /\ pc = "idle"
    /\ access_keys' = load_existing_keys(csv)
    /\ camera_active' = FALSE
    /\ session_unique' = Unique(csv)
    /\ clicked' = "none"
    /\ widget' = "none"
    /\ rerun' = FALSE
    /\ cap' = "none"
    /\ status' = IF csv.kind = "corrupt" THEN Msg("Error loading existing keys", <<>>)
                 ELSE Msg("", <<>>)
    /\ UNCHANGED <<csv, pc, objs>>

\* a script run dies in the sidebar: pd.read_csv of line 161 is not guarded
SidebarCrash ==
    /\ pc = "idle"
    /\ clicked # "none" \/ rerun
    /\ csv.kind = "corrupt"
    /\ clicked' = "none"
    /\ widget' = "none"
    /\ rerun' = FALSE
    /\ status' = Msg("uncaught exception", <<>>)
    /\ UNCHANGED <<csv, access_keys, camera_active, pc, objs, cap, session_unique>>

\* ScriptRun with line 203 testing the flag as it was before the buttons were read
ScriptRun_stale_flag ==
    /\ pc = "idle"
    /\ clicked # "none" \/ rerun
    /\ csv.kind # "corrupt"
    /\ widget' = IF clicked \in {"process", "clear"} THEN clicked ELSE "none"
    /\ status' = Msg("", <<>>)
    /\ clicked' = "none"
    /\ rerun' = FALSE
    /\ camera_active' = IF clicked = "start" THEN TRUE
                        ELSE IF clicked = "stop" THEN FALSE
                        ELSE camera_active
    /\ pc' = IF camera_active THEN "open" ELSE "tab2"
    /\ UNCHANGED <<csv, access_keys, objs, cap, session_unique>>

\* a script run up to line 203: the sidebar, the two camera buttons, the flag
ScriptRun ==
    /\ pc = "idle"
    /\ clicked # "none" \/ rerun
    /\ csv.kind # "corrupt"
    /\ widget' = IF clicked \in {"process", "clear"} THEN clicked ELSE "none"
    /\ status' = Msg("", <<>>)
    /\ clicked' = "none"
    /\ rerun' = FALSE
    /\ camera_active' = IF clicked = "start" THEN TRUE
                        ELSE IF clicked = "stop" THEN FALSE
                        ELSE camera_active
    /\ pc' = IF camera_active' THEN "open" ELSE "tab2"
    /\ UNCHANGED <<csv, access_keys, objs, cap, session_unique>>

\* OpenCamera without line 209: the flag stays set when the camera cannot be opened
OpenCamera_keeps_flag ==
    /\ pc = "open"
    /\ \/ /\ cap' = "open"
          /\ status' = Msg("Scanning for QR codes...", <<>>)
          /\ pc' = "capture"
       \/ /\ cap' = "none"
          /\ status' = Msg("Could not access webcam", <<>>)
          /\ pc' = "tab2"
    /\ UNCHANGED <<csv, access_keys, camera_active, clicked, objs, rerun,
                   session_unique, widget>>

\* lines 205-212: cv2.VideoCapture(0) and cap.isOpened()
OpenCamera ==
    /\ pc = "open"
    /\ \/ /\ cap' = "open"
          /\ status' = Msg("Scanning for QR codes...", <<>>)
          /\ pc' = "capture"
          /\ UNCHANGED camera_active
       \/ /\ cap' = "none"
          /\ status' = Msg("Could not access webcam", <<>>)
          /\ camera_active' = FALSE
          /\ pc' = "tab2"
    /\ UNCHANGED <<csv, access_keys, clicked, objs, rerun, session_unique, widget>>

\* lines 215-219 and 250-255: cap.read() and decode_qr_from_frame
CaptureFrame ==
    /\ pc = "capture"
    /\ \/ \E d \in Decoded :
            /\ objs' = d
            /\ pc' = "symbols"
            /\ UNCHANGED <<status, camera_active>>
       \/ /\ status' = Msg("Could not capture frame from camera", <<>>)
          /\ pc' = "release"
          /\ UNCHANGED <<objs, camera_active>>
       \/ /\ status' = Msg("Camera error", <<>>)
          /\ camera_active' = FALSE
          /\ pc' = "release"
          /\ UNCHANGED objs
    /\ UNCHANGED <<csv, access_keys, clicked, cap, rerun, session_unique, widget>>

\* lines 222-245: one symbol of the frame
ScanSymbol ==
    /\ pc = "symbols"
    /\ objs # <<>>
    /\ \/ handle_symbol(Head(objs), "New key saved", "Duplicate")
       \/ /\ status' = Msg("Error processing QR code", <<>>)   \* drawing raised
          /\ UNCHANGED <<csv, access_keys>>
    /\ objs' = Tail(objs)
    /\ UNCHANGED <<camera_active, pc, clicked, cap, rerun, session_unique, widget>>

\* lines 247-255: the frame is shown, or showing it raises
DisplayFrame ==
    /\ pc = "symbols"
    /\ objs = <<>>
    /\ \/ UNCHANGED <<status, camera_active>>
       \/ /\ status' = Msg("Camera error", <<>>)
          /\ camera_active' = FALSE
    /\ pc' = "release"
    /\ UNCHANGED <<csv, access_keys, clicked, objs, cap, rerun, session_unique, widget>>

\* ReleaseCamera with cap.release() at the end of the try block instead of in
\* finally: it is skipped when the except clause ran
ReleaseCamera_in_try ==
    /\ pc = "release"
    /\ cap' = IF camera_active THEN "none" ELSE cap
    /\ rerun' = camera_active
    /\ pc' = IF camera_active THEN "idle" ELSE "tab2"
    /\ UNCHANGED <<csv, access_keys, camera_active, clicked, objs, status,
                   session_unique, widget>>

\* lines 256-262: finally cap.release(), then st.rerun() while the flag is set
ReleaseCamera ==
    /\ pc = "release"
    /\ cap' = "none"
    /\ rerun' = camera_active
    /\ pc' = IF camera_active THEN "idle" ELSE "tab2"
    /\ UNCHANGED <<csv, access_keys, camera_active, clicked, objs, status,
                   session_unique, widget>>

\* lines 264-282 and 100-123, 139-143: the Upload Image tab
UploadTab ==
    /\ pc = "tab2"
    /\ IF widget = "process"
       THEN \/ \E d \in Decoded :
                 /\ objs' = d
                 /\ pc' = IF d = <<>> THEN "tab3" ELSE "upload"
                 /\ status' = IF d = <<>> THEN Msg("No QR code found in the image", <<>>)
                              ELSE status
            \/ /\ status' = Msg("Error processing image", <<>>)
               /\ pc' = "tab3"
               /\ UNCHANGED objs
       ELSE /\ pc' = "tab3"
            /\ UNCHANGED <<objs, status>>
    /\ UNCHANGED <<csv, access_keys, camera_active, clicked, cap, rerun,
                   session_unique, widget>>

\* lines 125-138: one symbol of the uploaded image
UploadSymbol ==
    /\ pc = "upload"
    /\ \/ handle_symbol(Head(objs), "New access key saved", "Duplicate detected")
       \/ /\ status' = Msg("Error processing QR code", <<>>)
          /\ UNCHANGED <<csv, access_keys>>
    /\ objs' = Tail(objs)
    /\ pc' = IF objs' = <<>> THEN "tab3" ELSE "upload"
    /\ UNCHANGED <<camera_active, clicked, cap, rerun, session_unique, widget>>

\* ClearAllData without line 306: the file is removed, the seen-set is kept
ClearAllData_keeps_keys ==
    /\ pc = "tab3"
    /\ csv.kind = "csv"
    /\ widget = "clear"
    /\ csv' = Absent
    /\ status' = Msg("All data cleared!", <<>>)
    /\ rerun' = TRUE
    /\ pc' = "idle"
    /\ UNCHANGED <<access_keys, camera_active, clicked, objs, cap, session_unique, widget>>

\* lines 303-308: the Clear All Data button, shown while the file exists
ClearAllData ==
    /\ pc = "tab3"
    /\ csv.kind = "csv"
    /\ widget = "clear"
    /\ csv' = Absent
    /\ access_keys' = {}
    /\ status' = Msg("All data cleared!", <<>>)
    /\ rerun' = TRUE
    /\ pc' = "idle"
    /\ UNCHANGED <<camera_active, clicked, objs, cap, session_unique, widget>>

\* lines 284-310 otherwise: the table is shown, or there is none, or reading it raises
ViewData ==
    /\ pc = "tab3"
    /\ ~(csv.kind = "csv" /\ widget = "clear")
    /\ status' = IF csv.kind = "corrupt" THEN Msg("uncaught exception", <<>>) ELSE status
    /\ pc' = "idle"
    /\ UNCHANGED <<csv, access_keys, camera_active, clicked, objs, cap, rerun,
                   session_unique, widget>>

SessionInit ==
    /\ csv = Absent
    /\ access_keys = load_existing_keys(csv)
    /\ camera_active = FALSE
    /\ pc = "idle"
    /\ clicked = "none"
    /\ widget = "none"
    /\ objs = <<>>
    /\ cap = "none"
    /\ rerun = FALSE
    /\ status = Msg("", <<>>)
    /\ session_unique = Unique(csv)

Init ==
    /\ SessionInit
    /\ qr_data = <<>>
    /\ access_key = None
    /\ wpc = <<>> /\ wkey = <<>> /\ wdf = <<>> /\ wkeys = <<>> /\ wret = <<>>

Next ==
    \/ (Click /\ UNCHANGED <<extractVars, writerVars>>)
    \/ (NewSession /\ UNCHANGED <<extractVars, writerVars>>)
    \/ (SidebarCrash /\ UNCHANGED <<extractVars, writerVars>>)
    \/ (ScriptRun /\ UNCHANGED <<extractVars, writerVars>>)
    \/ (OpenCamera /\ UNCHANGED <<extractVars, writerVars>>)
    \/ (CaptureFrame /\ UNCHANGED <<extractVars, writerVars>>)
    \/ (ScanSymbol /\ UNCHANGED <<extractVars, writerVars>>)
    \/ (DisplayFrame /\ UNCHANGED <<extractVars, writerVars>>)
    \/ (ReleaseCamera /\ UNCHANGED <<extractVars, writerVars>>)
    \/ (UploadTab /\ UNCHANGED <<extractVars, writerVars>>)
    \/ (UploadSymbol /\ UNCHANGED <<extractVars, writerVars>>)
    \/ (ClearAllData /\ UNCHANGED <<extractVars, writerVars>>)
    \/ (ViewData /\ UNCHANGED <<extractVars, writerVars>>)

Spec == Init /\ [][Next]_vars

(***************************************************************************)
(* Claims about one session                                                *)
(***************************************************************************)
SavedMsgs == {"New key saved", "New access key saved"}
SaveFailed == "Error saving access key"

\* the step handles a symbol whose key was new: save_to_csv ran
AppendStep ==
    /\ pc \in {"symbols", "upload"}
    /\ objs # <<>>
    /\ objs' = Tail(objs)
    /\ status'.msg \in SavedMsgs \cup {SaveFailed}

Count(rows, k) == Cardinality({i \in 1..Len(rows) : rows[i] = k})

\* the access_key texts the session holds in memory
TextKeys(keys) == {v[2] : v \in keys}

\* C1: in a session that started from an absent or duplicate-free file, no two
\* records of the file ever have the same access_key.
C1_UniqueKeys == session_unique => Unique(csv)

\* C2: an append that fails leaves the file and the seen-set as they were, and
\* after every append the seen-set and the keys in the file agree.
C2_FailedAppendUntouched ==
    [][AppendStep =>
        /\ (status'.msg = SaveFailed => csv' = csv /\ access_keys' = access_keys)
        /\ TextKeys(access_keys') = Range(csv'.rows)]_vars

\* C3: right after a key k was saved, k is in the seen-set (the same text again is
\* a duplicate) and the file holds exactly one record for k.
C3_SavedOnce ==
    status.msg \in SavedMsgs =>
        /\ StrVal(status.key) \in access_keys
        /\ Count(csv.rows, status.key) = 1

\* C4: right after a key k was saved, load_existing_keys of a fresh session
\* returns a set that contains k.
C4_RoundTrip ==
    status.msg \in SavedMsgs => StrVal(status.key) \in load_existing_keys(csv)

\* C5: Clear All Data leaves the file absent and the seen-set empty: a load returns
\* the empty set, the record count is 0, and every key, recorded before or not, is
\* new again and would be written as the only record.
C5_ClearEmpties ==
    [][ClearAllData =>
        /\ ~exists(csv')
        /\ access_keys' = {}
        /\ load_existing_keys(csv') = {}
        /\ RecordCount(csv') = 0
        /\ \A k \in Range(csv.rows) \cup TextKeys(access_keys) :
              /\ StrVal(k) \notin access_keys'
              /\ to_csv(NewTable(csv', k)).rows = <<k>>]_vars

C5_Witness ==
    /\ status.msg = "All data cleared!"
    /\ ~exists(csv)
    /\ access_keys = {}
    /\ rerun

\* C7: the camera handle is held only inside the try block of an iteration: no
\* iteration ends, and none starts, with a handle still held.
C7_Released == pc \notin {"capture", "symbols", "release"} => cap # "open"

C7_Witness ==
    /\ pc = "idle"
    /\ cap = "none"
    /\ status.msg = "Camera error"

C9_StopBetweenIterations ==
    [][/\ (pc = "idle" /\ pc' # "idle" /\ clicked = "stop")
            => (~camera_active' /\ pc' # "open")
       /\ (pc' = "open" /\ pc # "open") => camera_active'
       /\ (~camera_active /\ camera_active') => (clicked = "start" /\ pc = "idle")
       /\ pc \in {"capture", "symbols"} => pc' \in {"capture", "symbols", "release"}
       /\ pc = "release" => (pc' = "release" \/ cap' = "none")]_vars

C9_Witness ==
    /\ pc = "release"
    /\ clicked = "stop"
    /\ status.msg = "New key saved"
    /\ camera_active

(***************************************************************************)
(* extract_access_key applied to decoded texts                             *)
(***************************************************************************)
MaxRun == 48    \* longest digit run in the texts tried

Pending == <<"pending">>

ExtractTexts ==
    { pre \o Rep("1", n) \o post :
        pre  \in {<<>>, <<"a">>, <<" ">>},
        n    \in 0..MaxRun,
        post \in {<<>>, <<"b">>, <<" ", "b", "7">>, <<"b">> \o Rep("2", NFE_KEY_LEN)} }
    \cup
    { pre \o Rep("a", n) \o <<" ">> :
        pre \in {<<>>, <<" ">>}, n \in {MAX_PLAIN_LEN - 1, MAX_PLAIN_LEN, MAX_PLAIN_LEN + 1} }

Extract ==
    /\ access_key = Pending
    /\ access_key' = extract_access_key(qr_data)
    /\ UNCHANGED qr_data

NextText ==
    /\ access_key # Pending
    /\ qr_data' \in ExtractTexts
    /\ access_key' = Pending

ExtractInit ==
    /\ qr_data = <<>>
    /\ access_key = Pending
    /\ SessionInit
    /\ wpc = <<>> /\ wkey = <<>> /\ wdf = <<>> /\ wkeys = <<>> /\ wret = <<>>

ExtractNext ==
    \/ (Extract /\ UNCHANGED <<sessionVars, writerVars>>)
    \/ (NextText /\ UNCHANGED <<sessionVars, writerVars>>)

SpecExtract == ExtractInit /\ [][ExtractNext]_vars

\* the maximal digit runs of s, each as <<first, last>>
Runs(s) ==
    {<<i, RunEnd(s, i)>> : i \in {j \in DigitsAt(s, 1) : j = 1 \/ ~IsDigit(s[j - 1])}}

\* C6: for a text whose only digit run has 45 digits, or exactly 47 digits,
\* extract_access_key returns the whole run.
C6_ExactRunLength ==
    access_key # Pending =>
        \A r \in Runs(qr_data) :
            (Runs(qr_data) = {r} /\ r[2] - r[1] + 1 \in {NFE_KEY_LEN + 1, ALT_KEY_LEN})
                => access_key = SubSeq(qr_data, r[1], r[2])

(***************************************************************************)
(* Two sessions appending to the same file.  Each has its own seen-set;    *)
(* the steps of save_to_csv interleave at the two accesses to the file.    *)
(* Reads and writes succeed here: failing ones are part of Spec.           *)
(***************************************************************************)
Writers == {1, 2}

WriterTexts == { <<"7">>, <<"a">>, <<" ", "b">> }

Ret(r, k) == [ret |-> r, key |-> k]

\* lines 128-134: the text is handled; a new key enters save_to_csv
WHandle(w) ==
    /\ wpc[w] = "idle"
    /\ \E t \in WriterTexts :
          LET key == extract_access_key(t)
          IN  IF key # None /\ StrVal(key) \notin wkeys[w]
              THEN /\ wkey' = [wkey EXCEPT ![w] = key]
                   /\ wpc' = [wpc EXCEPT ![w] = "read"]
                   /\ UNCHANGED wret
              ELSE /\ wret' = [wret EXCEPT ![w] = Ret("duplicate", key)]
                   /\ UNCHANGED <<wkey, wpc>>
    /\ UNCHANGED <<csv, wdf, wkeys>>

\* lines 48-52: the whole file is read and the new entry put after it
WRead(w) ==
    /\ wpc[w] = "read"
    /\ Len(csv.rows) < MaxRows
    /\ wdf' = [wdf EXCEPT ![w] = NewTable(csv, wkey[w])]
    /\ wpc' = [wpc EXCEPT ![w] = "write"]
    /\ UNCHANGED <<csv, wkey, wkeys, wret>>

\* WWrite appending the new entry to the file as it is now (to_csv with mode='a')
WWrite_append(w) ==
    /\ wpc[w] = "write"
    /\ csv' = CsvFile(csv.rows \o <<strip(wkey[w])>>)
    /\ wkeys' = [wkeys EXCEPT ![w] = @ \cup {StrVal(strip(wkey[w]))}]
    /\ wret' = [wret EXCEPT ![w] = Ret("ok", wkey[w])]
    /\ wpc' = [wpc EXCEPT ![w] = "idle"]
    /\ UNCHANGED <<wkey, wdf>>

\* lines 54-56: the file is rewritten in full, the key joins the seen-set
WWrite(w) ==
    /\ wpc[w] = "write"
    /\ csv' = to_csv(wdf[w])
    /\ wkeys' = [wkeys EXCEPT ![w] = @ \cup {StrVal(strip(wkey[w]))}]
    /\ wret' = [wret EXCEPT ![w] = Ret("ok", wkey[w])]
    /\ wpc' = [wpc EXCEPT ![w] = "idle"]
    /\ UNCHANGED <<wkey, wdf>>

WritersInit ==
    /\ csv = Absent
    /\ wpc = [w \in Writers |-> "idle"]
    /\ wkey = [w \in Writers |-> <<>>]
    /\ wdf = [w \in Writers |-> <<>>]
    /\ wkeys = [w \in Writers |-> load_existing_keys(csv)]
    /\ wret = [w \in Writers |-> Ret("", <<>>)]
    /\ access_keys = {}
    /\ camera_active = FALSE
    /\ pc = "idle"
    /\ clicked = "none"
    /\ widget = "none"
    /\ objs = <<>>
    /\ cap = "none"
    /\ rerun = FALSE
    /\ status = Msg("", <<>>)
    /\ session_unique = TRUE
    /\ qr_data = <<>>
    /\ access_key = None

WritersNext ==
    \/ \E w \in Writers :
         WHandle(w) /\ UNCHANGED <<access_keys, camera_active, pc, clicked, widget,
                                   objs, cap, rerun, status, session_unique, extractVars>>
    \/ \E w \in Writers :
         WRead(w) /\ UNCHANGED <<access_keys, camera_active, pc, clicked, widget,
                                 objs, cap, rerun, status, session_unique, extractVars>>
    \/ \E w \in Writers :
         WWrite(w) /\ UNCHANGED <<access_keys, camera_active, pc, clicked, widget,
                                  objs, cap, rerun, status, session_unique, extractVars>>

SpecWriters == WritersInit /\ [][WritersNext]_vars

\* C10: a write that returns ok puts the table its writer read in place of the
\* file: every record that joined the file after that read is lost, no error shown.
C10_WriteDropsLaterRecords ==
    [][\A w \in Writers :
          (wpc[w] = "write" /\ wpc'[w] = "idle" /\ wret'[w].ret = "ok") =>
              \A k \in Range(csv.rows) :
                  k \notin TextKeys(Range(wdf[w])) => k \notin Range(csv'.rows)]_vars

\* both appends returned ok for distinct keys and the file holds one record
C10_Witness ==
    /\ \A w \in Writers : wpc[w] = "idle" /\ wret[w].ret = "ok"
    /\ wret[1].key # wret[2].key
    /\ Len(csv.rows) = 1
    /\ StrVal(wret[1].key) \in wkeys[1]
    /\ StrVal(wret[2].key) \in wkeys[2]

====
